---- MODULE Spec2Model ----
(***************************************************************************)
(* Manifest compilation of src/cargo/util/toml.rs: to_manifest parses the  *)
(* bytes, toml_to_manifest decodes the sections and walks the dependencies *)
(* table, TomlManifest::to_manifest normalizes the targets and parses the  *)
(* requirement strings.                                                    *)
(***************************************************************************)
EXTENDS Integers, Sequences, FiniteSets, TLC

VARIABLES contents, pc, root, inner, toml, targets, parseCalls, result

vars == <<contents, pc, root, inner, toml, targets, parseCalls, result>>

(***************************************************************************)
(* Bounds of the model.                                                    *)
(***************************************************************************)
\* longest lib / bin sequence handed to normalize
MaxTargets == 2
\* most entries of a dependencies table
MaxDeps == 2

(***************************************************************************)
(* Values: Option<String>, TomlTarget, toml values, errors.                *)
(***************************************************************************)
NoPath == [some |-> FALSE, v |-> ""]
SomePath(p) == [some |-> TRUE, v |-> p]

TargetNames == {"a", "b"}
TargetPaths == {"custom/b.src"}

\* struct TomlTarget { name: String, path: Option<String> }
TomlTarget == [name : TargetNames, path : {NoPath} \cup {SomePath(p) : p \in TargetPaths}]

NoVec == [some |-> FALSE, v |-> <<>>]
SomeVec(s) == [some |-> TRUE, v |-> s]

SeqsUpTo(S, n) == UNION {[1..k -> S] : k \in 0..n}

\* the values normalize can be handed for lib and for bin
OptTargets == {NoVec} \cup {SomeVec(s) : s \in SeqsUpTo(TomlTarget, MaxTargets)}

\* CargoError values: simple_human(desc), toml_error(desc, e), and the error
\* of the requirement parser
NoError == [kind |-> "None", desc |-> "", detail |-> "", cause |-> "None"]
simple_human(desc) == [kind |-> "HumanReadableError", desc |-> desc, detail |-> "", cause |-> "None"]
toml_error(desc, e) == [kind |-> "TomlError", desc |-> desc, detail |-> e, cause |-> "None"]

Ok(v) == [ok |-> TRUE, val |-> v, err |-> NoError]
Err(none, e) == [ok |-> FALSE, val |-> none, err |-> e]

(***************************************************************************)
(* The generic tree: a root with the four recognised keys.  A section is   *)
(* [kind, val]: kind "absent" is a failed lookup, "malformed" a value that *)
(* typed decoding rejects, "ok" a value that decodes to val.               *)
(***************************************************************************)
Absent(none) == [kind |-> "absent", val |-> none]
Malformed(none) == [kind |-> "malformed", val |-> none]
Present(v) == [kind |-> "ok", val |-> v]

ReqStrings == {"1.0", "bad"}
\* the requirement strings the external parser accepts
ParsableReqs == {"1.0"}

EmptyMap == [k \in {} |-> ""]
StrVal(s) == [tag |-> "String", s |-> s, t |-> EmptyMap]
IntVal == [tag |-> "Integer", s |-> "", t |-> EmptyMap]
TableVal(t) == [tag |-> "Table", s |-> "", t |-> t]

DetailKeys == {"version", "registry"}
DetailVals(k) == IF k = "version" THEN {StrVal(s) : s \in ReqStrings} \cup {IntVal}
                                  ELSE {StrVal("custom"), IntVal}
SubTables == UNION {{t \in [K -> {StrVal(s) : s \in ReqStrings \cup {"custom"}} \cup {IntVal}] :
                        \A k \in K : t[k] \in DetailVals(k)} : K \in SUBSET DetailKeys}

\* the values of one dependencies entry: string, table, or another shape
DepValues == {StrVal(s) : s \in ReqStrings} \cup {TableVal(t) : t \in SubTables} \cup {IntVal}

DepNames == <<"foo", "bar", "baz", "qux">>
DepTables == UNION {[{DepNames[i] : i \in 1..k} -> DepValues] : k \in 0..MaxDeps}

ProjectSections == {Absent(""), Malformed(""), Present("hello")}
LibSections == {Absent(<<>>), Malformed(<<>>), Present(<<>>),
                Present(<<[name |-> "a", path |-> NoPath]>>)}
BinSections == {Absent(<<>>), Malformed(<<>>),
                Present(<<[name |-> "b", path |-> NoPath]>>)}
DepSections == {Absent(EmptyMap), Malformed(EmptyMap)} \cup {Present(t) : t \in DepTables}

Roots == [project : ProjectSections, lib : LibSections, bin : BinSections,
          dependencies : DepSections]
NoRoot == [project |-> Absent(""), lib |-> Absent(<<>>), bin |-> Absent(<<>>),
           dependencies |-> Absent(EmptyMap)]

\* the input bytes: well-formed Toml of some tree, or not Toml at all
Documents == {[syntax |-> TRUE, tree |-> r] : r \in Roots}
                \cup {[syntax |-> FALSE, tree |-> NoRoot]}

Perms(S) == {f \in [1..Cardinality(S) -> S] : \A x \in S : \E i \in DOMAIN f : f[i] = x}

(***************************************************************************)
(* toml_to_manifest                                                        *)
(***************************************************************************)
from_toml(sec, none) == IF sec.kind = "ok" THEN Ok(sec.val) ELSE Err(none, "DecodeError")

\* a decode that takes a value typed decoding rejects for an empty one
decode_lenient(tree, path, none) ==
    IF tree[path].kind = "absent" THEN Err(none, "ParseError")
    ELSE Ok(tree[path].val)

\* root.lookup(path), then toml::from_toml
decode(tree, path, none) ==
    IF tree[path].kind = "absent" THEN Err(none, "ParseError")
    ELSE from_toml(tree[path], none)

ok(r) == IF r.ok THEN [some |-> TRUE, v |-> r.val] ELSE [some |-> FALSE, v |-> r.val]

SimpleDep(s) == [tag |-> "SimpleDep", version |-> s, other |-> EmptyMap]
DetailedDep(version, details) == [tag |-> "DetailedDep", version |-> version, other |-> details]

\* a detailed dependency that accepts a sub-table without `version`
detailed_no_version_check(t) ==
    IF \E k \in DOMAIN t : t[k].tag # "String"
        THEN Err(SimpleDep(""), simple_human("dependency values must be string"))
    ELSE Ok(DetailedDep(IF "version" \in DOMAIN t THEN t["version"].s ELSE "",
                        [k \in DOMAIN t |-> t[k].s]))

\* a detailed dependency that looks for `version` before it checks the values
detailed_version_first(t) ==
    IF "version" \notin DOMAIN t
        THEN Err(SimpleDep(""), simple_human("dependencies must include a version"))
    ELSE IF \E k \in DOMAIN t : t[k].tag # "String"
        THEN Err(SimpleDep(""), simple_human("dependency values must be string"))
    ELSE Ok(DetailedDep(t["version"].s, [k \in DOMAIN t |-> t[k].s]))

\* the match arm of a toml::Table entry: every value must be a string (the
\* first one that is not ends the loop, whichever it is), then `version`
\* must be among the keys
detailed(t) ==
    IF \E k \in DOMAIN t : t[k].tag # "String"
        THEN Err(SimpleDep(""), simple_human("dependency values must be string"))
    ELSE IF "version" \notin DOMAIN t
        THEN Err(SimpleDep(""), simple_human("dependencies must include a version"))
    ELSE Ok(DetailedDep(t["version"].s, [k \in DOMAIN t |-> t[k].s]))

Insert(d) == [ok |-> TRUE, insert |-> TRUE, val |-> d, err |-> NoError]
Skip == [ok |-> TRUE, insert |-> FALSE, val |-> SimpleDep(""), err |-> NoError]
Fail(e) == [ok |-> FALSE, insert |-> FALSE, val |-> SimpleDep(""), err |-> e]

\* a match whose table arm is swallowed by the catch-all arm
classify_strings_only(v) ==
    IF v.tag = "String" THEN Insert(SimpleDep(v.s)) ELSE Skip

\* a match that skips a table it cannot accept instead of failing
classify_skip_invalid(v) ==
    IF v.tag = "String" THEN Insert(SimpleDep(v.s))
    ELSE IF v.tag = "Table" /\ detailed(v.t).ok THEN Insert(detailed(v.t).val)
    ELSE Skip

\* match v { &toml::String(..) => .., &toml::Table(..) => .., _ => () }
classify(v) ==
    IF v.tag = "String" THEN Insert(SimpleDep(v.s))
    ELSE IF v.tag = "Table"
        THEN LET d == detailed(v.t)
             IN  IF d.ok THEN Insert(d.val) ELSE Fail(d.err)
    ELSE Skip

RECURSIVE walk(_, _, _, _)
\* for (k, v) in table.iter(), in the iteration order `order`
walk(table, order, i, deps) ==
    IF i > Len(order) THEN Ok(deps)
    ELSE LET k == order[i]
             c == classify(table[k])
             put(d) == [n \in DOMAIN deps \cup {k} |-> IF n = k THEN d ELSE deps[n]]
         IN  IF ~c.ok THEN Err(EmptyMap, c.err)
             ELSE IF c.insert THEN walk(table, order, i + 1, put(c.val))
             ELSE walk(table, order, i + 1, deps)

NoDeps == [some |-> FALSE, v |-> EmptyMap]
resolve_deps(tree, order) ==
    IF tree["dependencies"].kind = "absent" THEN Ok(NoDeps)
    ELSE IF tree["dependencies"].kind # "ok"
        THEN Err(NoDeps, simple_human("dependencies must be a table"))
    ELSE LET r == walk(tree["dependencies"].val, order, 1, EmptyMap)
         IN  IF r.ok THEN Ok([some |-> TRUE, v |-> r.val]) ELSE Err(NoDeps, r.err)

NoToml == [project |-> "", lib |-> NoVec, bin |-> NoVec, dependencies |-> NoDeps]

\* a toml_to_manifest that walks the dependencies before it decodes project
toml_to_manifest_deps_first(tree, order) ==
    LET project == decode(tree, "project", "")
        lib == ok(decode(tree, "lib", <<>>))
        bin == ok(decode(tree, "bin", <<>>))
        deps == resolve_deps(tree, order)
    IN  IF ~deps.ok THEN Err(NoToml, deps.err)
        ELSE IF ~project.ok THEN Err(NoToml, toml_error("ZOMG", project.err))
        ELSE Ok([project |-> project.val, lib |-> lib, bin |-> bin, dependencies |-> deps.val])

toml_to_manifest(tree, order) ==
    LET project == decode(tree, "project", "")
        lib == ok(decode(tree, "lib", <<>>))
        bin == ok(decode(tree, "bin", <<>>))
        deps == resolve_deps(tree, order)
    IN  IF ~project.ok THEN Err(NoToml, toml_error("ZOMG", project.err))
        ELSE IF ~deps.ok THEN Err(NoToml, deps.err)
        ELSE Ok([project |-> project.val, lib |-> lib, bin |-> bin, dependencies |-> deps.val])

\* the keys of the dependencies table, to draw its iteration order from
TableKeys(tree) == IF tree["dependencies"].kind = "ok" THEN DOMAIN tree["dependencies"].val ELSE {}

(***************************************************************************)
(* normalize                                                               *)
(***************************************************************************)
lib_target(name, path) == [kind |-> "Lib", name |-> name, path |-> path]
bin_target(name, path) == [kind |-> "Bin", name |-> name, path |-> path]

unwrap_or_else(opt, default) == IF opt.some THEN opt.v ELSE default

\* [panic, ret]: libs[0] is out of bounds on an empty slice
lib_targets(dst, libs) ==
    IF Len(libs) = 0 THEN [panic |-> TRUE, ret |-> dst]
    ELSE LET l == libs[1]
             path == unwrap_or_else(l.path, "src/" \o l.name \o ".rs")
         IN  [panic |-> FALSE, ret |-> Append(dst, lib_target(l.name, path))]

lib_absent_default(bin) == "src/" \o bin.name \o ".rs"
\* a default for binaries that does not look at lib
default_ignoring_lib(bin) == "src/" \o bin.name \o ".rs"
\* |bin| format!("src/bin/{}.rs", bin.name)
lib_present_default(bin) == "src/bin/" \o bin.name \o ".rs"

RECURSIVE bin_targets(_, _, _)
bin_targets(dst, bins, withLib) ==
    IF bins = <<>> THEN dst
    ELSE LET bin == Head(bins)
             path == unwrap_or_else(bin.path,
                        IF withLib THEN lib_present_default(bin) ELSE lib_absent_default(bin))
         IN  bin_targets(Append(dst, bin_target(bin.name, path)), Tail(bins), withLib)

normalize(lib, bin) ==
    IF lib.some /\ bin.some
        THEN LET r == lib_targets(<<>>, lib.v)
             IN  IF r.panic THEN r ELSE [panic |-> FALSE, ret |-> bin_targets(r.ret, bin.v, TRUE)]
    ELSE IF lib.some THEN lib_targets(<<>>, lib.v)
    ELSE IF bin.some THEN [panic |-> FALSE, ret |-> bin_targets(<<>>, bin.v, FALSE)]
    ELSE [panic |-> FALSE, ret |-> <<>>]

(***************************************************************************)
(* TomlManifest::to_manifest                                               *)
(***************************************************************************)
NoDependency == [name |-> "", req |-> ""]
Dependency_parse(name, version) ==
    IF version \in ParsableReqs THEN Ok([name |-> name, req |-> version])
    ELSE [ok |-> FALSE, val |-> NoDependency,
          err |-> [kind |-> "InvalidVersionRequirement", desc |-> version, detail |-> name,
                   cause |-> "None"]]

RECURSIVE collect(_, _, _, _, _)
\* for (n, v) in dependencies.iter(): [ok, val, err, calls], calls the
\* (name, version) pairs handed to Dependency::parse so far
collect(dependencies, order, i, deps, calls) ==
    IF i > Len(order) THEN [ok |-> TRUE, val |-> deps, err |-> NoError, calls |-> calls]
    ELSE LET n == order[i]
             version == dependencies[n].version
             d == Dependency_parse(n, version)
             called == Append(calls, <<n, version>>)
         IN  IF d.ok THEN collect(dependencies, order, i + 1, Append(deps, d.val), called)
             ELSE [ok |-> FALSE, val |-> <<>>, err |-> d.err, calls |-> called]

NoManifest == [summary |-> [package_id |-> "", dependencies |-> <<>>], targets |-> <<>>,
               target_dir |-> ""]
Manifest_new(package_id, deps, tgts) ==
    [summary |-> [package_id |-> package_id, dependencies |-> deps], targets |-> tgts,
     target_dir |-> "target"]

collect_deps(tm, order) ==
    IF tm.dependencies.some THEN collect(tm.dependencies.v, order, 1, <<>>, <<>>)
    ELSE [ok |-> TRUE, val |-> <<>>, err |-> NoError, calls |-> <<>>]

DepKeys(tm) == IF tm.dependencies.some THEN DOMAIN tm.dependencies.v ELSE {}

(***************************************************************************)
(* to_manifest, one step per stage.  result is the value the caller gets:  *)
(* tag "Ok" with the manifest, "Err" with the error, "Panic" for a task    *)
(* failure; inner is the error toml_to_manifest returned, the argument the *)
(* map_err closure of to_manifest receives.                                *)
(***************************************************************************)
NoResult == [tag |-> "None", manifest |-> NoManifest, err |-> NoError]
ResOk(m) == [tag |-> "Ok", manifest |-> m, err |-> NoError]
ResErr(e) == [tag |-> "Err", manifest |-> NoManifest, err |-> e]
ResPanic == [tag |-> "Panic", manifest |-> NoManifest, err |-> NoError]

invalid_toml(e) == simple_human("Cargo.toml is not valid Toml")
\* a closure that keeps the error it is handed as the cause
invalid_manifest_chained(e) ==
    [kind |-> "HumanReadableError", desc |-> "Cargo.toml is not a valid Cargo manifest",
     detail |-> "", cause |-> e.desc]
\* |_| simple_human("Cargo.toml is not a valid Cargo manifest")
invalid_manifest(e) == simple_human("Cargo.toml is not a valid Cargo manifest")

Init ==
    /\ contents \in Documents
    /\ pc = "start"
    /\ root = NoRoot
    /\ inner = NoError
    /\ toml = NoToml
    /\ targets = <<>>
    /\ parseCalls = <<>>
    /\ result = NoResult

\* toml::parse_from_bytes(contents).map_err(..)
ParseFromBytes ==
    /\ pc = "start"
    /\ IF contents.syntax
        THEN /\ root' = contents.tree
             /\ pc' = "parsed"
             /\ result' = result
        ELSE /\ root' = root
             /\ pc' = "done"
             /\ result' = ResErr(invalid_toml("ParseError"))
    /\ UNCHANGED <<contents, inner, toml, targets, parseCalls>>

\* toml_to_manifest(root).map_err(..)
TomlToManifest ==
    /\ pc = "parsed"
    /\ \E order \in Perms(TableKeys(root)) :
          LET r == toml_to_manifest(root, order)
          IN  IF r.ok
                THEN /\ toml' = r.val
                     /\ pc' = "decoded"
                     /\ UNCHANGED <<inner, result>>
                ELSE /\ inner' = r.err
                     /\ result' = ResErr(invalid_manifest(r.err))
                     /\ pc' = "done"
                     /\ toml' = toml
    /\ UNCHANGED <<contents, root, targets, parseCalls>>

\* let targets = normalize(..)
Normalize ==
    /\ pc = "decoded"
    /\ LET r == normalize(toml.lib, toml.bin)
       IN  IF r.panic
             THEN /\ pc' = "done"
                  /\ result' = ResPanic
                  /\ targets' = targets
             ELSE /\ pc' = "normalized"
                  /\ targets' = r.ret
                  /\ result' = result
    /\ UNCHANGED <<contents, root, inner, toml, parseCalls>>

\* the loop over the dependencies and Manifest::new
CollectDeps ==
    /\ pc = "normalized"
    /\ \E order \in Perms(DepKeys(toml)) :
          LET r == collect_deps(toml, order)
          IN  /\ parseCalls' = r.calls
              /\ result' = IF r.ok THEN ResOk(Manifest_new(toml.project, r.val, targets))
                                   ELSE ResErr(r.err)
    /\ pc' = "done"
    /\ UNCHANGED <<contents, root, inner, toml, targets>>

Next == ParseFromBytes \/ TomlToManifest \/ Normalize \/ CollectDeps

Spec == Init /\ [][Next]_vars

(***************************************************************************)
(* normalize alone, on every lib / bin up to MaxTargets entries.           *)
(***************************************************************************)
InitNormalize ==
    /\ contents = [syntax |-> TRUE, tree |-> NoRoot]
    /\ pc = "decoded"
    /\ root = NoRoot
    /\ inner = NoError
    /\ \E lib \in OptTargets, bin \in OptTargets :
          toml = [project |-> "hello", lib |-> lib, bin |-> bin, dependencies |-> NoDeps]
    /\ targets = <<>>
    /\ parseCalls = <<>>
    /\ result = NoResult

NextNormalize == Normalize \/ CollectDeps

SpecNormalize == InitNormalize /\ [][NextNormalize]_vars

(***************************************************************************)
(* The document under compilation, as the properties read it.              *)
(***************************************************************************)
Tree == contents.tree
Done == pc = "done"
ProjectOk == contents.syntax /\ Tree.project.kind = "ok"
HasTable == Tree.dependencies.kind = "ok"
Table == Tree.dependencies.val
Keys == IF HasTable THEN DOMAIN Table ELSE {}

InvalidManifest == ResErr(simple_human("Cargo.toml is not a valid Cargo manifest"))
MissingSection == toml_error("ZOMG", "ParseError")
InvalidDependenciesSection == simple_human("dependencies must be a table")
InvalidDependencySpec == simple_human("dependency values must be string")
MissingVersion == simple_human("dependencies must include a version")

IsTable(k) == Table[k].tag = "Table"
AllStrings(k) == \A f \in DOMAIN Table[k].t : Table[k].t[f].tag = "String"
HasVersion(k) == "version" \in DOMAIN Table[k].t
\* the requirement string of an entry the resolver accepts
Requirement(k) == IF Table[k].tag = "String" THEN Table[k].s ELSE Table[k].t["version"].s
NonString(k) == IsTable(k) /\ ~AllStrings(k)
NoVersion(k) == IsTable(k) /\ ~HasVersion(k)
Structural(k) == NonString(k) \/ NoVersion(k)
Resolved(k) == Table[k].tag = "String" \/ (IsTable(k) /\ ~Structural(k))
Unparsable(k) == Resolved(k) /\ Requirement(k) \notin ParsableReqs
ValidEntry(k) == ~Structural(k) /\ ~Unparsable(k)

(***************************************************************************)
(* C1: to_manifest ends, for every document, with a complete Manifest or   *)
(* with an error value, and with nothing else: no task failure and no      *)
(* manifest next to an error.                                              *)
(***************************************************************************)
C1_ManifestOrError ==
    Done => /\ result.tag \in {"Ok", "Err"}
            /\ result.tag = "Err" => result.manifest = NoManifest
            /\ result.tag = "Ok" => result.err = NoError

(***************************************************************************)
(* C2: a well-formed document without a project section fails with the     *)
(* error of the project lookup, whatever dependencies, lib and bin hold;   *)
(* no later stage has run.                                                 *)
(***************************************************************************)
C2_MissingProject ==
    (Done /\ contents.syntax /\ Tree.project.kind = "absent")
        => /\ inner = MissingSection
           /\ result = InvalidManifest
           /\ targets = <<>>
           /\ parseCalls = <<>>

C2_Witness ==
    /\ Done /\ contents.syntax /\ Tree.project.kind = "absent"
    /\ Tree.lib = Present(<<>>)
    /\ HasTable /\ \E k \in Keys : NonString(k)
    /\ \E k \in Keys : Unparsable(k)

(***************************************************************************)
(* C3: for every lib and bin, normalize returns a list of (1 if lib is     *)
(* present, else 0) + (number of bin entries) targets: the Library target  *)
(* first, built from the first lib entry, then one Binary target per bin   *)
(* entry in the order of the entries.                                      *)
(***************************************************************************)
LibCount == IF toml.lib.some THEN 1 ELSE 0
BinCount == IF toml.bin.some THEN Len(toml.bin.v) ELSE 0

C3_TargetList ==
    pc # "decoded"
        => /\ result.tag # "Panic"
           /\ Len(targets) = LibCount + BinCount
           /\ toml.lib.some => /\ targets[1].kind = "Lib"
                               /\ targets[1].name = toml.lib.v[1].name
           /\ \A j \in 1..BinCount : /\ targets[LibCount + j].kind = "Bin"
                                     /\ targets[LibCount + j].name = toml.bin.v[j].name

(***************************************************************************)
(* C4: every target normalize emits has the explicit path of its entry     *)
(* when there is one, and otherwise src/<name>.rs for the library, and for *)
(* a binary src/bin/<name>.rs when lib is present and src/<name>.rs when   *)
(* lib is absent.                                                          *)
(***************************************************************************)
EntryOf(i) == IF toml.lib.some /\ i = 1 THEN toml.lib.v[1] ELSE toml.bin.v[i - LibCount]

C4_Paths ==
    \A i \in DOMAIN targets :
        targets[i].path =
            IF EntryOf(i).path.some THEN EntryOf(i).path.v
            ELSE IF targets[i].kind = "Lib" THEN "src/" \o EntryOf(i).name \o ".rs"
            ELSE IF toml.lib.some THEN "src/bin/" \o EntryOf(i).name \o ".rs"
            ELSE "src/" \o EntryOf(i).name \o ".rs"

C4_Witness ==
    /\ pc = "normalized"
    /\ toml.lib.some /\ toml.lib.v[1].path.some
    /\ Len(targets) = 3
    /\ targets[2].path = "src/bin/a.rs"
    /\ targets[3].path = "custom/b.src"

(***************************************************************************)
(* C5, as claimed: every failure of a well-formed document reaches the     *)
(* caller as one human-readable error that carries its originating cause.  *)
(***************************************************************************)
C5_WrappedWithCause ==
    (Done /\ contents.syntax /\ result.tag = "Err")
        => /\ result.err.kind = "HumanReadableError"
           /\ result.err.cause # "None"

(***************************************************************************)
(* C5, amended: a failure of the project section or of the dependencies    *)
(* table reaches the caller as the human-readable error "Cargo.toml is not *)
(* a valid Cargo manifest" with no cause (the originating error is         *)
(* dropped); a requirement string that does not parse reaches the caller   *)
(* as the error of the requirement parser itself.                          *)
(***************************************************************************)
C5_Surfaced ==
    (Done /\ contents.syntax /\ result.tag = "Err")
        => IF inner # NoError
             THEN /\ result = InvalidManifest
                  /\ result.err.cause = "None"
                  /\ inner \in {toml_error("ZOMG", "ParseError"), toml_error("ZOMG", "DecodeError"),
                                InvalidDependenciesSection, InvalidDependencySpec, MissingVersion}
             ELSE /\ result.err.kind = "InvalidVersionRequirement"
                  /\ parseCalls # <<>>
                  /\ result.err.detail = parseCalls[Len(parseCalls)][1]
                  /\ parseCalls[Len(parseCalls)][2] \notin ParsableReqs

C5_Witness ==
    /\ Done /\ result = InvalidManifest /\ inner = MissingVersion

(***************************************************************************)
(* C6: when compilation succeeds the resolved dependencies are, one per    *)
(* key, the keys of the dependencies table whose value is a string or a    *)
(* table, each parsed from the key and its requirement string; other       *)
(* shapes add nothing, no table gives no dependency, and a document with   *)
(* only project has no dependency and no target.                           *)
(***************************************************************************)
Wanted == {k \in Keys : Table[k].tag \in {"String", "Table"}}
ResolvedDeps == result.manifest.summary.dependencies

C6_Dependencies ==
    result.tag = "Ok"
        => /\ Len(ResolvedDeps) = Cardinality(Wanted)
           /\ {ResolvedDeps[i] : i \in DOMAIN ResolvedDeps}
                = {[name |-> k, req |-> Requirement(k)] : k \in Wanted}
           /\ {parseCalls[i] : i \in DOMAIN parseCalls} = {<<k, Requirement(k)>> : k \in Wanted}
           /\ (Tree.lib.kind = "absent" /\ Tree.bin.kind = "absent"
                 /\ Tree.dependencies.kind = "absent")
                => /\ ResolvedDeps = <<>>
                   /\ result.manifest.targets = <<>>

C6_Witness ==
    /\ result.tag = "Ok"
    /\ \E k \in Keys : Table[k].tag = "Integer"
    /\ \E k \in Keys : IsTable(k) /\ "registry" \in DOMAIN Table[k].t
    /\ Len(ResolvedDeps) = 1

(***************************************************************************)
(* C7, as claimed: an entry that is a table without `version`, whatever    *)
(* else the table holds, fails with the missing-version error when it is   *)
(* the only invalid entry of the document.                                 *)
(***************************************************************************)
OnlyInvalid(k) == \A j \in Keys \ {k} : ValidEntry(j)

C7_MissingVersion ==
    (Done /\ ProjectOk /\ HasTable)
        => \A k \in Keys : (NoVersion(k) /\ OnlyInvalid(k))
                => (inner = MissingVersion /\ result = InvalidManifest)

(***************************************************************************)
(* C7, amended: an entry that is a table without `version` and with string *)
(* values only fails with the missing-version error when it is the only    *)
(* invalid entry of the document.                                          *)
(***************************************************************************)
C7_MissingVersionAllStrings ==
    (Done /\ ProjectOk /\ HasTable)
        => \A k \in Keys : (NoVersion(k) /\ AllStrings(k) /\ OnlyInvalid(k))
                => (inner = MissingVersion /\ result = InvalidManifest)

C7_Witness ==
    /\ Done /\ ProjectOk /\ HasTable
    /\ \E k \in Keys : /\ NoVersion(k) /\ AllStrings(k) /\ OnlyInvalid(k)
                       /\ DOMAIN Table[k].t = {"registry"}
    /\ Cardinality(Keys) = 2
    /\ inner = MissingVersion

Strip(tree) ==
    [tree EXCEPT !.lib = IF @.kind = "malformed" THEN Absent(<<>>) ELSE @,
                 !.bin = IF @.kind = "malformed" THEN Absent(<<>>) ELSE @]

\* the results to_manifest can give for a well-formed document
Assemble(tm, order) ==
    LET n == normalize(tm.lib, tm.bin)
        r == collect_deps(tm, order)
    IN  IF n.panic THEN ResPanic
        ELSE IF r.ok THEN ResOk(Manifest_new(tm.project, r.val, n.ret))
        ELSE ResErr(r.err)

Compile(tree, order) ==
    LET r == toml_to_manifest(tree, order)
    IN  IF r.ok THEN {Assemble(r.val, o) : o \in Perms(DepKeys(r.val))}
        ELSE {ResErr(invalid_manifest(r.err))}

Outcomes(tree) == UNION {Compile(tree, o) : o \in Perms(TableKeys(tree))}

MalformedSection == Tree.lib.kind = "malformed" \/ Tree.bin.kind = "malformed"

C9_MalformedIsAbsent ==
    (Done /\ contents.syntax /\ MalformedSection)
        => /\ result \in Outcomes(Strip(Tree))
           /\ inner # NoError => inner \in {r.err : r \in {toml_to_manifest(Strip(Tree), o) :
                                                             o \in Perms(TableKeys(Tree))}}
           /\ (Tree.lib.kind = "malformed" /\ Tree.bin.kind = "ok" /\ ProjectOk
                 /\ inner = NoError)
                => /\ Len(targets) = Len(Tree.bin.val)
                   /\ \A i \in DOMAIN targets :
                        /\ targets[i].kind = "Bin"
                        /\ ~Tree.bin.val[i].path.some
                             => targets[i].path = "src/" \o Tree.bin.val[i].name \o ".rs"

C9_Witness ==
    /\ Done /\ result.tag = "Ok"
    /\ Tree.lib.kind = "malformed" /\ Tree.bin.kind = "ok"
    /\ result.manifest.targets = <<bin_target("b", "src/b.rs")>>

(***************************************************************************)
(* C10: the stages run in the order syntax, project, dependencies table,   *)
(* requirement strings, and the first one that fails decides the error.    *)
(* The requirement parser is called only once the whole table has been     *)
(* classified; a document with a structurally invalid entry and an entry   *)
(* with an unparsable requirement fails with the structural error, for     *)
(* every iteration order, and the parser is never called.                  *)
(***************************************************************************)
C10_StageOrder ==
    /\ ~contents.syntax => (inner = NoError /\ parseCalls = <<>> /\ targets = <<>>)
    /\ (Done /\ contents.syntax /\ Tree.project.kind # "ok")
            => (inner.kind = "TomlError" /\ result = InvalidManifest)
    /\ parseCalls # <<>> => (ProjectOk /\ inner = NoError /\ \A k \in Keys : ~Structural(k))
    /\ (Done /\ ProjectOk /\ (\E k \in Keys : Structural(k)))
            => /\ inner \in {InvalidDependencySpec, MissingVersion}
               /\ result = InvalidManifest
               /\ parseCalls = <<>>

C10_Witness ==
    /\ Done /\ ProjectOk
    /\ \E k \in Keys : Structural(k)
    /\ \E k \in Keys : Unparsable(k)
    /\ result = InvalidManifest

====
